---- MODULE Spec2Model ----
(***************************************************************************)
(* Model of the two offline tools of the repository:                       *)
(*   tools/pack_atlases.py   - greedy shelf packer and manifest writer     *)
(*   sprite_sheet_batch.py   - PNG conversion and fixed-grid sheet builder *)
(*                                                                         *)
(* Four specifications share the module:                                  *)
(*   Spec      - one call of pack_category, pack_atlas stepped per sprite  *)
(*   FairSpec  - Spec with the fairness of a sequential program            *)
(*   MainSpec  - main of pack_atlases.py over its three categories         *)
(*   SheetSpec - main of sprite_sheet_batch.py                             *)
(***************************************************************************)
EXTENDS Integers, Sequences, FiniteSets, TLC

MAX_ATLAS_SIZE == 4096

\* Largest number of PNGs in the category directory of Spec.
MaxSprites == 3

\* Pixel sizes the sprites of a directory are drawn from: one past the
\* maximum (oversize), a width of exactly the maximum, and sizes whose sums
\* reach the maximum exactly (1024 + 3072) or pass it (2048 + 3072).
SpriteWidths == {1024, 3072, 4096, 4097}
SpriteHeights == {1024, 2048, 3072, 4097}

SpriteImages == [w : SpriteWidths, h : SpriteHeights]

\* A directory's PNGs in sorted file-name order; the key of a sprite is its
\* position in that order.
Directories == UNION {[1..n -> SpriteImages] : n \in 0..MaxSprites}

categories_to_pack == <<"objects", "walls", "inventory">>

Max(a, b) == IF a >= b THEN a ELSE b

EmptyMap == [k \in {} |-> 0]

VARIABLES
    \* ---- pack_category / pack_atlas (Spec) ----
    pc,            \* position in pack_category / pack_atlas
    category,      \* argument of pack_category
    dir_exists,    \* sprite_dir.exists()
    dir_sprites,   \* the PNGs of the directory, in sorted file-name order
    images,        \* key -> loaded image size
    remaining,     \* list of keys still to place
    atlases,       \* list of [width, height, rects]
    rects, cur_x, cur_y, row_height, atlas_width, atlas_height, placed,
    idx,           \* position of the for loop in remaining
    warnings,      \* keys of the WARNING lines printed, in order
    errors,        \* number of ERROR lines printed
    passes,        \* number of passes of the while loop started
    ret,           \* return value of pack_category: <<>> is None, <<d>> a dict
    \* ---- the sprites directory, written by pack_category ----
    saved,         \* atlas files written, in order
    \* ---- main of pack_atlases.py (MainSpec) ----
    mpc, dirs, manifest_file, manifest_file0, manifest, cat_i,
    \* ---- main of sprite_sheet_batch.py (SheetSpec) ----
    spc, args, is_dir, n_images, tile, converted, sheet_idx, sheets

packVars == <<pc, category, dir_exists, dir_sprites, images, remaining, atlases,
              rects, cur_x, cur_y, row_height, atlas_width, atlas_height, placed,
              idx, warnings, errors, passes, ret>>
mainVars == <<mpc, dirs, manifest_file, manifest_file0, manifest, cat_i>>
sheetVars == <<spc, args, is_dir, n_images, tile, converted, sheet_idx, sheets>>
vars == <<packVars, saved, mainVars, sheetVars>>

(***************************************************************************)
(* pack_atlases.py: collect_sprites and the sort of pack_atlas             *)
(***************************************************************************)

\* collect_sprites: {key: path}, keys in sorted file-name order.
collect_sprites(directory) == [k \in DOMAIN directory |-> directory[k]]

\* j sorts before k under key (-height, -width); sorted() is stable, so ties
\* keep the enumeration order of the dict, which is the key order.
SortsBefore(imgs, j, k) ==
    \/ imgs[j].h > imgs[k].h
    \/ imgs[j].h = imgs[k].h /\ imgs[j].w > imgs[k].w
    \/ imgs[j].h = imgs[k].h /\ imgs[j].w = imgs[k].w /\ j < k

sorted_keys(imgs) ==
    [p \in 1..Cardinality(DOMAIN imgs) |->
        CHOOSE k \in DOMAIN imgs :
            Cardinality({j \in DOMAIN imgs : SortsBefore(imgs, j, k)}) = p - 1]

(***************************************************************************)
(* pack_atlas: one iteration of the for loop, on the state of the pass     *)
(***************************************************************************)

FreshPass ==
    [rects |-> EmptyMap, cur_x |-> 0, cur_y |-> 0, row_height |-> 0,
     atlas_width |-> 0, atlas_height |-> 0, placed |-> <<>>, warned |-> <<>>]

Oversize(w, h) == w > MAX_ATLAS_SIZE \/ h > MAX_ATLAS_SIZE

FitsRow(x, w) == x + w <= MAX_ATLAS_SIZE

OverflowsHeight(y, h) == y + h > MAX_ATLAS_SIZE

\* Mutant: the row height follows the last sprite placed.
GrowRowHeightLast(rh, h) == h

GrowRowHeight(rh, h) == Max(rh, h)

\* Mutant: the atlas width follows the cursor.
GrowWidthLast(aw, x) == x

GrowWidth(aw, x) == Max(aw, x)

GrowHeight(ah, y, rh) == Max(ah, y + rh)

\* Mutant: the oversize sprite is warned about but not marked placed.
SkipOversizeUnplaced(ps, key) == [ps EXCEPT !.warned = Append(@, key)]

\* Mutant: the oversize sprite also closes the current shelf.
SkipOversizeNewRow(ps, key) ==
    [ps EXCEPT !.placed = Append(@, key), !.warned = Append(@, key),
               !.cur_x = 0, !.cur_y = ps.cur_y + ps.row_height, !.row_height = 0]

\* The oversize branch: a warning, the key marked placed, nothing else.
SkipOversize(ps, key) ==
    [ps EXCEPT !.placed = Append(@, key), !.warned = Append(@, key)]

\* rects[key] = {...} and the cursor and bounding box updates after it.
Place(ps, key, w, h) ==
    LET rh == GrowRowHeight(ps.row_height, h)
        cx == ps.cur_x + w
    IN  [ps EXCEPT
            !.rects = [k \in DOMAIN ps.rects \cup {key} |->
                          IF k = key
                          THEN [x |-> ps.cur_x, y |-> ps.cur_y, w |-> w, h |-> h]
                          ELSE ps.rects[k]],
            !.row_height = rh,
            !.cur_x = cx,
            !.atlas_width = GrowWidth(@, cx),
            !.atlas_height = GrowHeight(@, ps.cur_y, rh),
            !.placed = Append(@, key)]

\* "Start new row".
NewRow(ps) ==
    [ps EXCEPT !.cur_x = 0, !.cur_y = ps.cur_y + ps.row_height, !.row_height = 0]

\* The body of "for key in remaining" for one key.
StepSprite(ps, key, img) ==
    IF Oversize(img.w, img.h)
    THEN SkipOversize(ps, key)
    ELSE IF FitsRow(ps.cur_x, img.w)
         THEN IF OverflowsHeight(ps.cur_y, img.h)
              THEN ps
              ELSE Place(ps, key, img.w, img.h)
         ELSE LET nr == NewRow(ps)
              IN  IF OverflowsHeight(nr.cur_y, img.h)
                  THEN nr
                  ELSE Place(nr, key, img.w, img.h)

\* remaining = [k for k in remaining if k not in placed]
InSeq(x, s) == \E i \in 1..Len(s) : s[i] = x

\* Mutant: as many keys as were placed are cut off the front.
StillRemainingSliced(rem, pl) == SubSeq(rem, Len(pl) + 1, Len(rem))

StillRemaining(rem, pl) == SelectSeq(rem, LAMBDA k : ~InSeq(k, pl))

\* The (atlas_img, rects) tuple appended to atlases; the image is its size.
MakeAtlas(ps) ==
    [width |-> ps.atlas_width, height |-> ps.atlas_height, rects |-> ps.rects]

\* The for loop of one pass, from position i of rem.
RECURSIVE RunPass(_, _, _, _)
RunPass(ps, rem, i, imgs) ==
    IF i > Len(rem) THEN ps
    ELSE RunPass(StepSprite(ps, rem[i], imgs[rem[i]]), rem, i + 1, imgs)

\* The while loop: the atlases returned for images imgs, given those built.
RECURSIVE RunPasses(_, _, _)
RunPasses(rem, imgs, built) ==
    IF rem = <<>> THEN built
    ELSE LET ps == RunPass(FreshPass, rem, 1, imgs)
         IN  IF ps.placed = <<>>
             THEN built
             ELSE RunPasses(StillRemaining(rem, ps.placed), imgs,
                            Append(built, MakeAtlas(ps)))

pack_atlas(sprites) == RunPasses(sorted_keys(sprites), sprites, <<>>)

(***************************************************************************)
(* pack_category: the files saved and the manifest entry returned          *)
(***************************************************************************)

\* f"sprites/{category}_atlas.png" and f"sprites/{category}_atlas_{i}.png",
\* as the pieces the f-string joins.
SingleAtlasFile(cat) == <<"sprites/", cat, "_atlas", ".png">>

MultiAtlasFile(cat, i) == <<"sprites/", cat, "_atlas_", i, ".png">>

\* Mutant: the atlas index counts from 1.
TagAtlasOneBased(rect, i) ==
    [x |-> rect.x, y |-> rect.y, w |-> rect.w, h |-> rect.h, atlas |-> i + 1]

\* rect["atlas"] = i
TagAtlas(rect, i) ==
    [x |-> rect.x, y |-> rect.y, w |-> rect.w, h |-> rect.h, atlas |-> i]

\* The atlas index i (0-based, as enumerate counts) tagged on key: the loop
\* assigns all_sprites[key] once per atlas holding key, the last one stays.
LastAtlasOf(atl, key) ==
    CHOOSE i \in 1..Len(atl) :
        /\ key \in DOMAIN atl[i].rects
        /\ \A j \in 1..Len(atl) : key \in DOMAIN atl[j].rects => j <= i

AllSprites(atl) ==
    [k \in UNION {DOMAIN atl[i].rects : i \in 1..Len(atl)} |->
        TagAtlas(atl[LastAtlasOf(atl, k)].rects[k], LastAtlasOf(atl, k) - 1)]

BuildEntry(cat, atl) ==
    IF Len(atl) = 1
    THEN [file |-> SingleAtlasFile(cat), sprites |-> atl[1].rects]
    ELSE [files |-> [i \in 1..Len(atl) |-> MultiAtlasFile(cat, i - 1)],
          sprites |-> AllSprites(atl)]

\* The files atlas_img.save writes, in order.
AtlasFiles(cat, atl) ==
    IF Len(atl) = 1
    THEN <<[path |-> SingleAtlasFile(cat), width |-> atl[1].width,
            height |-> atl[1].height]>>
    ELSE [i \in 1..Len(atl) |->
            [path |-> MultiAtlasFile(cat, i - 1), width |-> atl[i].width,
             height |-> atl[i].height]]

\* A canvas with no pixels. Whether the image library encodes it or raises is
\* not decided by this repository, so a save of one may do either.
EmptyCanvas(a) == a.width = 0 \/ a.height = 0

SaveOutcomes(atl) ==
    IF \E i \in 1..Len(atl) : EmptyCanvas(atl[i]) THEN {"saved", "raised"}
    ELSE {"saved"}

\* The files on disk when the first save of an empty canvas raises.
FilesBeforeRaise(cat, atl) ==
    LET first == CHOOSE i \in 1..Len(atl) :
                    /\ EmptyCanvas(atl[i])
                    /\ \A j \in 1..(i - 1) : ~EmptyCanvas(atl[j])
    IN  SubSeq(AtlasFiles(cat, atl), 1, first - 1)

\* if atlas_info: (None and the empty dict are falsy)
Truthy(r) == r # <<>> /\ DOMAIN r[1] # {}

(***************************************************************************)
(* Spec: one call of pack_category                                         *)
(***************************************************************************)

IdlePack ==
    /\ pc = "idle" /\ category = "objects" /\ dir_exists = FALSE
    /\ dir_sprites = <<>> /\ images = EmptyMap /\ remaining = <<>>
    /\ atlases = <<>> /\ rects = EmptyMap /\ cur_x = 0 /\ cur_y = 0
    /\ row_height = 0 /\ atlas_width = 0 /\ atlas_height = 0 /\ placed = <<>>
    /\ idx = 0 /\ warnings = <<>> /\ errors = 0 /\ passes = 0 /\ ret = <<>>

IdleMain ==
    /\ mpc = "idle" /\ dirs = EmptyMap /\ manifest_file = <<>>
    /\ manifest_file0 = <<>> /\ manifest = EmptyMap /\ cat_i = 0

IdleSheet ==
    /\ spc = "idle" /\ args = [columns |-> 0, rows |-> 0, batch_size |-> 0]
    /\ is_dir = FALSE /\ n_images = 0 /\ tile = [w |-> 0, h |-> 0]
    /\ converted = <<>> /\ sheet_idx = 0 /\ sheets = <<>>

Init ==
    /\ pc = "start"
    /\ category = categories_to_pack[1]   \* the category only names the files
    /\ dir_exists \in BOOLEAN
    /\ dir_sprites \in Directories
    /\ (~dir_exists => dir_sprites = <<>>)
    /\ images = EmptyMap /\ remaining = <<>>
    /\ atlases = <<>> /\ rects = EmptyMap /\ cur_x = 0 /\ cur_y = 0
    /\ row_height = 0 /\ atlas_width = 0 /\ atlas_height = 0 /\ placed = <<>>
    /\ idx = 0 /\ warnings = <<>> /\ errors = 0 /\ passes = 0 /\ ret = <<>>
    /\ saved = <<>>
    /\ IdleMain /\ IdleSheet

\* pack_category up to the call of pack_atlas, and pack_atlas up to its loop.
EnterCategory ==
    /\ pc = "start"
    /\ IF ~dir_exists \/ collect_sprites(dir_sprites) = EmptyMap
       THEN /\ ret' = <<>>
            /\ pc' = "done"
            /\ UNCHANGED <<images, remaining>>
       ELSE /\ images' = collect_sprites(dir_sprites)
            /\ remaining' = sorted_keys(collect_sprites(dir_sprites))
            /\ pc' = "while"
            /\ ret' = ret
    /\ UNCHANGED <<category, dir_exists, dir_sprites, atlases, rects, cur_x,
                   cur_y, row_height, atlas_width, atlas_height, placed, idx,
                   warnings, errors, passes, saved, mainVars, sheetVars>>

\* "while remaining:" and the fresh state of a pass.
WhileRemaining ==
    /\ pc = "while"
    /\ IF remaining = <<>>
       THEN /\ pc' = "packed"
            /\ UNCHANGED <<rects, cur_x, cur_y, row_height, atlas_width,
                           atlas_height, placed, idx, passes>>
       ELSE /\ pc' = "for"
            /\ rects' = FreshPass.rects
            /\ cur_x' = FreshPass.cur_x
            /\ cur_y' = FreshPass.cur_y
            /\ row_height' = FreshPass.row_height
            /\ atlas_width' = FreshPass.atlas_width
            /\ atlas_height' = FreshPass.atlas_height
            /\ placed' = FreshPass.placed
            /\ idx' = 1
            /\ passes' = passes + 1
    /\ UNCHANGED <<category, dir_exists, dir_sprites, images, remaining,
                   atlases, warnings, errors, ret, saved, mainVars, sheetVars>>

PassState ==
    [rects |-> rects, cur_x |-> cur_x, cur_y |-> cur_y,
     row_height |-> row_height, atlas_width |-> atlas_width,
     atlas_height |-> atlas_height, placed |-> placed, warned |-> warnings]

\* One iteration of "for key in remaining:".
ForSprite ==
    /\ pc = "for"
    /\ idx <= Len(remaining)
    /\ LET ns == StepSprite(PassState, remaining[idx], images[remaining[idx]])
       IN  /\ rects' = ns.rects
           /\ cur_x' = ns.cur_x
           /\ cur_y' = ns.cur_y
           /\ row_height' = ns.row_height
           /\ atlas_width' = ns.atlas_width
           /\ atlas_height' = ns.atlas_height
           /\ placed' = ns.placed
           /\ warnings' = ns.warned
    /\ idx' = idx + 1
    /\ UNCHANGED <<pc, category, dir_exists, dir_sprites, images, remaining,
                   atlases, errors, passes, ret, saved, mainVars, sheetVars>>

\* After the for loop: the abort, or the atlas and the new remaining list.
EndPass ==
    /\ pc = "for"
    /\ idx > Len(remaining)
    /\ IF placed = <<>>
       THEN /\ errors' = errors + 1
            /\ pc' = "packed"
            /\ UNCHANGED <<atlases, remaining>>
       ELSE /\ atlases' = Append(atlases, MakeAtlas(PassState))
            /\ remaining' = StillRemaining(remaining, placed)
            /\ pc' = "while"
            /\ errors' = errors
    /\ UNCHANGED <<category, dir_exists, dir_sprites, images, rects, cur_x,
                   cur_y, row_height, atlas_width, atlas_height, placed, idx,
                   warnings, passes, ret, saved, mainVars, sheetVars>>

\* pack_category after pack_atlas returned: the saves and the entry.
SaveAndReturn ==
    /\ pc = "packed"
    /\ \E outcome \in SaveOutcomes(atlases) :
          IF outcome = "raised"
          THEN /\ saved' = saved \o FilesBeforeRaise(category, atlases)
               /\ pc' = "raised"
               /\ ret' = ret
          ELSE /\ saved' = saved \o AtlasFiles(category, atlases)
               /\ pc' = "done"
               /\ ret' = <<BuildEntry(category, atlases)>>
    /\ UNCHANGED <<category, dir_exists, dir_sprites, images, remaining,
                   atlases, rects, cur_x, cur_y, row_height, atlas_width,
                   atlas_height, placed, idx, warnings, errors, passes,
                   mainVars, sheetVars>>

Next ==
    \/ EnterCategory
    \/ WhileRemaining
    \/ ForSprite
    \/ EndPass
    \/ SaveAndReturn

Spec == Init /\ [][Next]_vars

\* A sequential program runs on while it has a next statement.
FairSpec == Spec /\ WF_vars(Next)

(***************************************************************************)
(* MainSpec: main of pack_atlases.py                                       *)
(***************************************************************************)

\* pack_category as a function of the directory: None, or the entry.
pack_category(cat, dir) ==
    IF ~dir.exists \/ collect_sprites(dir.sprites) = EmptyMap
    THEN <<>>
    ELSE <<BuildEntry(cat, pack_atlas(collect_sprites(dir.sprites)))>>

\* The atlases whose images pack_category saves for the directory.
AtlasesOf(dir) ==
    IF ~dir.exists \/ collect_sprites(dir.sprites) = EmptyMap
    THEN <<>>
    ELSE pack_atlas(collect_sprites(dir.sprites))

\* f"{category}_atlas"
AtlasKey(cat) ==
    CASE cat = "objects" -> "objects_atlas"
      [] cat = "walls" -> "walls_atlas"
      [] cat = "inventory" -> "inventory_atlas"

\* manifest[key] = value
SetKey(m, key, value) ==
    [k \in DOMAIN m \cup {key} |-> IF k = key THEN value ELSE m[k]]

\* Mutant: the key is written without the test, None included.
MergeEntryAlways(m, cat, atlas_info) ==
    SetKey(m, AtlasKey(cat),
           IF atlas_info = <<>> THEN [null |-> TRUE] ELSE atlas_info[1])

\* if atlas_info: manifest[f"{category}_atlas"] = atlas_info
MergeEntry(m, cat, atlas_info) ==
    IF Truthy(atlas_info) THEN SetKey(m, AtlasKey(cat), atlas_info[1]) ELSE m

\* The category directories a run of main may find.
Sprite(w, h) == [w |-> w, h |-> h]

MainDirectories ==
    { [exists |-> FALSE, sprites |-> <<>>],
      [exists |-> TRUE, sprites |-> <<>>],
      [exists |-> TRUE, sprites |-> <<Sprite(1024, 1024)>>],
      [exists |-> TRUE, sprites |-> <<Sprite(4096, 2048), Sprite(4096, 3072)>>],
      [exists |-> TRUE, sprites |-> <<Sprite(4097, 1024)>>] }

\* The manifests a run of main may find: any of these keys, each with a value
\* of an earlier run or of another tool.
ManifestKeys == {"sprites", "objects_atlas", "inventory_atlas"}

OldValue(k) == [file |-> <<"old/", k>>, sprites |-> EmptyMap]

Manifests == {[k \in ks |-> OldValue(k)] : ks \in SUBSET ManifestKeys}

CategorySet == {categories_to_pack[i] : i \in 1..Len(categories_to_pack)}

MainInit ==
    /\ mpc = "load"
    /\ dirs \in [CategorySet -> MainDirectories]
    /\ manifest_file \in {<<>>} \cup {<<m>> : m \in Manifests}
    /\ manifest_file0 = manifest_file
    /\ manifest = EmptyMap
    /\ cat_i = 0
    /\ saved = <<>>
    /\ IdlePack /\ IdleSheet

\* with open(MANIFEST_PATH) as f: manifest = json.load(f)
LoadManifest ==
    /\ mpc = "load"
    /\ IF manifest_file = <<>>
       THEN /\ mpc' = "raised"
            /\ UNCHANGED <<manifest, cat_i>>
       ELSE /\ manifest' = manifest_file[1]
            /\ cat_i' = 1
            /\ mpc' = "loop"
    /\ UNCHANGED <<dirs, manifest_file, manifest_file0, saved, packVars, sheetVars>>

\* One iteration of "for category in categories_to_pack:".
PackNextCategory ==
    /\ mpc = "loop"
    /\ cat_i <= Len(categories_to_pack)
    /\ LET cat == categories_to_pack[cat_i]
           atl == AtlasesOf(dirs[cat])
       IN  \E outcome \in SaveOutcomes(atl) :
              IF outcome = "raised"
              THEN /\ saved' = saved \o FilesBeforeRaise(cat, atl)
                   /\ mpc' = "raised"
                   /\ UNCHANGED <<manifest, cat_i>>
              ELSE /\ saved' = (IF atl = <<>> THEN saved
                                ELSE saved \o AtlasFiles(cat, atl))
                   /\ manifest' = MergeEntry(manifest, cat,
                                             pack_category(cat, dirs[cat]))
                   /\ cat_i' = cat_i + 1
                   /\ mpc' = mpc
    /\ UNCHANGED <<dirs, manifest_file, manifest_file0, packVars, sheetVars>>

\* with open(MANIFEST_PATH, "w") as f: json.dump(manifest, f, indent=2)
WriteManifest ==
    /\ mpc = "loop"
    /\ cat_i > Len(categories_to_pack)
    /\ manifest_file' = <<manifest>>
    /\ mpc' = "done"
    /\ UNCHANGED <<dirs, manifest_file0, manifest, cat_i, saved, packVars, sheetVars>>

MainNext ==
    \/ LoadManifest
    \/ PackNextCategory
    \/ WriteManifest

MainSpec == MainInit /\ [][MainNext]_vars

(***************************************************************************)
(* SheetSpec: main of sprite_sheet_batch.py                                *)
(***************************************************************************)

MaxColumns == 3
MaxRows == 3
MaxBatchSize == 4
MaxImages == 5

\* Sizes of the (equal-size) input images.
TileSizes == {[w |-> 1, h |-> 1], [w |-> 2, h |-> 3]}

\* Mutant: the column is computed as the row is.
CellColSwapped(i, rows) == i % rows

\* row = idx % rows ; col = idx // rows
CellRow(i, rows) == i % rows

CellCol(i, rows) == i \div rows

\* build_sheet: the canvas and the paste of every image of the batch.
build_sheet(batch, columns, rows, tile_w, tile_h) ==
    [sheet_w |-> columns * tile_w,
     sheet_h |-> rows * tile_h,
     images |-> batch,
     pastes |-> [i \in 1..Len(batch) |->
                    [x |-> CellCol(i - 1, rows) * tile_w,
                     y |-> CellRow(i - 1, rows) * tile_h]]]

\* math.ceil(len(converted_images) / args.batch_size)
SheetCount(n, batch_size) == (n + batch_size - 1) \div batch_size

\* converted_images[start:end]
Slice(s, start, end) ==
    SubSeq(s, start + 1, IF end < Len(s) THEN end ELSE Len(s))

\* columns * rows < batch_size
GridTooSmall(a) == a.columns * a.rows < a.batch_size

SheetInit ==
    /\ spc = "start"
    /\ args \in [columns : 0..MaxColumns, rows : 0..MaxRows,
                 batch_size : 0..MaxBatchSize]
    /\ is_dir \in BOOLEAN
    /\ n_images \in 0..MaxImages
    /\ (~is_dir => n_images = 0)
    /\ tile \in TileSizes
    /\ converted = <<>>
    /\ sheet_idx = 0
    /\ sheets = <<>>
    /\ saved = <<>>
    /\ IdlePack /\ IdleMain

\* The checks of the input directory and of the image list.
CheckInput ==
    /\ spc = "start"
    /\ spc' = IF ~is_dir THEN "exit_not_a_directory"
              ELSE IF n_images = 0 THEN "exit_no_images"
              ELSE "convert"
    /\ UNCHANGED <<args, is_dir, n_images, tile, converted, sheet_idx, sheets,
                   saved, packVars, mainVars>>

\* convert_to_png: one iteration of its loop writes one PNG.
ConvertImage ==
    /\ spc = "convert"
    /\ Len(converted) < n_images
    /\ converted' = Append(converted, Len(converted) + 1)
    /\ UNCHANGED <<spc, args, is_dir, n_images, tile, sheet_idx, sheets,
                   saved, packVars, mainVars>>

\* After convert_to_png returned: the grid check and sheet_count.
CheckGrid ==
    /\ spc = "convert"
    /\ Len(converted) = n_images
    /\ spc' = IF GridTooSmall(args) THEN "exit_grid_too_small"
              ELSE IF args.batch_size = 0 THEN "raised"
              ELSE "sheets"
    /\ UNCHANGED <<args, is_dir, n_images, tile, converted, sheet_idx, sheets,
                   saved, packVars, mainVars>>

\* One iteration of "for sheet_idx in range(sheet_count):".
BuildNextSheet ==
    /\ spc = "sheets"
    /\ sheet_idx < SheetCount(Len(converted), args.batch_size)
    /\ LET start == sheet_idx * args.batch_size
           batch == Slice(converted, start, start + args.batch_size)
       IN  sheets' = IF batch = <<>> THEN sheets
                     ELSE Append(sheets,
                                 build_sheet(batch, args.columns, args.rows,
                                             tile.w, tile.h))
    /\ sheet_idx' = sheet_idx + 1
    /\ UNCHANGED <<spc, args, is_dir, n_images, tile, converted, saved,
                   packVars, mainVars>>

SheetsDone ==
    /\ spc = "sheets"
    /\ sheet_idx >= SheetCount(Len(converted), args.batch_size)
    /\ spc' = "done"
    /\ UNCHANGED <<args, is_dir, n_images, tile, converted, sheet_idx, sheets,
                   saved, packVars, mainVars>>

SheetNext ==
    \/ CheckInput
    \/ ConvertImage
    \/ CheckGrid
    \/ BuildNextSheet
    \/ SheetsDone

SheetSpec == SheetInit /\ [][SheetNext]_vars

(***************************************************************************)
(* Properties of pack_atlas and pack_category (Spec, FairSpec)             *)
(***************************************************************************)

AtlasIndexes == 1..Len(atlases)

NotOversizeKeys(imgs) == {k \in DOMAIN imgs : ~Oversize(imgs[k].w, imgs[k].h)}

OversizeKeys(imgs) == {k \in DOMAIN imgs : Oversize(imgs[k].w, imgs[k].h)}

\* pack_atlas has returned (pack_category holds its result).
Returned == pc \in {"packed", "done", "raised"} /\ images # EmptyMap

\* [x, x+w) x [y, y+h) of two rects do not meet.
Disjoint(r1, r2) ==
    \/ r1.x + r1.w <= r2.x
    \/ r2.x + r2.w <= r1.x
    \/ r1.y + r1.h <= r2.y
    \/ r2.y + r2.h <= r1.y

\* The largest element of a finite set of naturals, 0 for the empty set.
MaxOf(S) == IF S = {} THEN 0 ELSE CHOOSE m \in S : \A n \in S : n <= m

\* The stepped loops build what the while loop as a function returns.
SteppedMatchesFunction == Returned => atlases = pack_atlas(images)

\* C1: in every atlas pack_atlas builds, the rectangles of any two distinct
\* keys are disjoint.
C1_NoOverlap ==
    \A i \in AtlasIndexes :
        \A k1, k2 \in DOMAIN atlases[i].rects :
            k1 # k2 => Disjoint(atlases[i].rects[k1], atlases[i].rects[k2])

\* A returned atlas with two shelves, the first holding two sprites.
C1_Witness ==
    /\ pc = "done"
    /\ \E i \in AtlasIndexes :
          \E k1, k2, k3 \in DOMAIN atlases[i].rects :
              /\ atlases[i].rects[k1].x > 0 /\ atlases[i].rects[k1].y = 0
              /\ atlases[i].rects[k2].y > 0
              /\ atlases[i].rects[k3].x = 0 /\ atlases[i].rects[k3].y = 0
              /\ atlases[i].rects[k3].h > atlases[i].rects[k1].h

\* C2: once pack_atlas has returned without the abort, every sprite that is
\* not oversize has a Rect in exactly one atlas, with the sprite's own w, h
\* (and at no time does a key have Rects in two atlases).
C2_ExactlyOneRect ==
    /\ \A i, j \in AtlasIndexes :
          i # j => DOMAIN atlases[i].rects \cap DOMAIN atlases[j].rects = {}
    /\ (Returned /\ errors = 0) =>
          \A k \in NotOversizeKeys(images) :
              \E i \in AtlasIndexes :
                  /\ k \in DOMAIN atlases[i].rects
                  /\ atlases[i].rects[k].w = images[k].w
                  /\ atlases[i].rects[k].h = images[k].h

\* A return with sprites deferred to a second and a third atlas.
C2_Witness ==
    /\ pc = "done" /\ errors = 0
    /\ Len(atlases) = 3
    /\ \A i \in AtlasIndexes : DOMAIN atlases[i].rects # {}

\* images without its oversize sprites.
WithoutOversize(imgs) == [k \in NotOversizeKeys(imgs) |-> imgs[k]]

\* The part of the pass state placement reads and writes.
Cursor(ps) ==
    [rects |-> ps.rects, cur_x |-> ps.cur_x, cur_y |-> ps.cur_y,
     row_height |-> ps.row_height, atlas_width |-> ps.atlas_width,
     atlas_height |-> ps.atlas_height]

NumberOf(x, s) == Cardinality({i \in 1..Len(s) : s[i] = x})

\* C3: an oversize sprite has no Rect in any atlas and exactly one warning;
\* during a pass the cursor state is the one the sprites before it that are
\* not oversize give on their own; and at the return every other sprite has
\* the atlas and Rect it has when the oversize sprites are not in the input.
C3_OversizeDropped ==
    /\ \A k \in OversizeKeys(images) :
          /\ \A i \in AtlasIndexes : k \notin DOMAIN atlases[i].rects
          /\ NumberOf(k, warnings) <= 1
          /\ Returned => NumberOf(k, warnings) = 1
    /\ \A i \in 1..Len(warnings) : warnings[i] \in OversizeKeys(images)
    /\ pc = "for" =>
          Cursor(PassState) =
              Cursor(RunPass(FreshPass,
                             SelectSeq(SubSeq(remaining, 1, idx - 1),
                                       LAMBDA k : k \in NotOversizeKeys(images)),
                             1, images))
    /\ Returned =>
          LET alone == pack_atlas(WithoutOversize(images))
          IN  \A k \in NotOversizeKeys(images) :
                  \A i \in 1..Max(Len(atlases), Len(alone)) :
                      LET here == i <= Len(atlases) /\ k \in DOMAIN atlases[i].rects
                          there == i <= Len(alone) /\ k \in DOMAIN alone[i].rects
                      IN  /\ here <=> there
                          /\ here => atlases[i].rects[k] = alone[i].rects[k]

\* A return where an oversize sprite came, in the sorted order, between two
\* sprites that share a shelf.
C3_Witness ==
    /\ pc = "done"
    /\ Len(warnings) = 1
    /\ \E i \in AtlasIndexes :
          \E k1, k2 \in DOMAIN atlases[i].rects :
              /\ atlases[i].rects[k1].x = 0 /\ atlases[i].rects[k1].y = 0
              /\ atlases[i].rects[k2].x > 0 /\ atlases[i].rects[k2].y = 0
              /\ SortsBefore(images, k1, warnings[1])
              /\ SortsBefore(images, warnings[1], k2)

\* C4: the canvas of every atlas is the bounding box of its Rects (0 x 0 for
\* an atlas without Rects), within MAX_ATLAS_SIZE, and holds every Rect.
C4_TightBoundingBox ==
    \A i \in AtlasIndexes :
        LET a == atlases[i]
        IN  /\ a.width = MaxOf({a.rects[k].x + a.rects[k].w : k \in DOMAIN a.rects})
            /\ a.height = MaxOf({a.rects[k].y + a.rects[k].h : k \in DOMAIN a.rects})
            /\ a.width <= MAX_ATLAS_SIZE
            /\ a.height <= MAX_ATLAS_SIZE
            /\ \A k \in DOMAIN a.rects :
                  /\ 0 <= a.rects[k].x /\ a.rects[k].x + a.rects[k].w <= a.width
                  /\ 0 <= a.rects[k].y /\ a.rects[k].y + a.rects[k].h <= a.height

\* A returned atlas whose second shelf is narrower than its first and whose
\* canvas is smaller than the maximum.
C4_Witness ==
    /\ pc = "done"
    /\ \E i \in AtlasIndexes :
          \E k1, k2 \in DOMAIN atlases[i].rects :
              /\ atlases[i].rects[k1].y = 0
              /\ atlases[i].rects[k2].y > 0
              /\ atlases[i].rects[k2].x + atlases[i].rects[k2].w < atlases[i].width
              /\ atlases[i].height < MAX_ATLAS_SIZE

\* C8: the entry pack_category returns has exactly one of "file" / "files",
\* "file" exactly when there is one atlas; "file" comes with Rects of x, y, w,
\* h alone, "files" with the path of every atlas in pass order and with every
\* Rect tagged with the index of the atlas that holds its key; the sprites
\* mapping holds the keys that have a Rect, with the packer's x, y, w, h.
C8_EntryShape ==
    (pc = "done" /\ ret # <<>>) =>
        LET e == ret[1]
            placedKeys == UNION {DOMAIN atlases[i].rects : i \in AtlasIndexes}
        IN  /\ ("file" \in DOMAIN e) # ("files" \in DOMAIN e)
            /\ ("file" \in DOMAIN e) <=> (Len(atlases) = 1)
            /\ DOMAIN e.sprites = placedKeys
            /\ \A i \in AtlasIndexes :
                  \A k \in DOMAIN atlases[i].rects :
                      /\ e.sprites[k].x = atlases[i].rects[k].x
                      /\ e.sprites[k].y = atlases[i].rects[k].y
                      /\ e.sprites[k].w = atlases[i].rects[k].w
                      /\ e.sprites[k].h = atlases[i].rects[k].h
                      /\ IF Len(atlases) = 1
                         THEN DOMAIN e.sprites[k] = {"x", "y", "w", "h"}
                         ELSE /\ DOMAIN e.sprites[k] = {"x", "y", "w", "h", "atlas"}
                              /\ e.sprites[k].atlas = i - 1
            /\ Len(saved) = Len(atlases)
            /\ IF Len(atlases) = 1
               THEN e.file = saved[1].path
               ELSE /\ Len(e.files) = Len(atlases)
                    /\ \A i \in AtlasIndexes :
                          /\ e.files[i] = saved[i].path
                          /\ e.files[i] = MultiAtlasFile(category, i - 1)
                          /\ saved[i].width = atlases[i].width
                          /\ saved[i].height = atlases[i].height

\* A multi-atlas entry whose second atlas holds two sprites.
C8_Witness ==
    /\ pc = "done" /\ ret # <<>>
    /\ "files" \in DOMAIN ret[1]
    /\ Len(ret[1].files) = 2
    /\ Cardinality(DOMAIN atlases[2].rects) = 2

\* C9: every atlas pack_atlas appends has at least one Rect and a canvas of
\* at least 1 x 1.
C9_EveryAtlasHasRect ==
    \A i \in AtlasIndexes :
        /\ DOMAIN atlases[i].rects # {}
        /\ atlases[i].width >= 1
        /\ atlases[i].height >= 1

\* The first key of remaining that is not oversize, 0 when there is none.
FirstNotOversize(rem, imgs) ==
    IF \E i \in 1..Len(rem) : rem[i] \in NotOversizeKeys(imgs)
    THEN rem[CHOOSE i \in 1..Len(rem) :
                /\ rem[i] \in NotOversizeKeys(imgs)
                /\ \A j \in 1..(i - 1) : rem[j] \notin NotOversizeKeys(imgs)]
    ELSE 0

\* The state part of C10: no abort, a pass per sprite at most, and at the end
\* of every pass a sprite to remove, the first not oversize one at (0,0).
C10_PassProgress ==
    /\ errors = 0
    /\ passes <= Cardinality(DOMAIN images)
    /\ passes + Len(remaining) <= Cardinality(DOMAIN images) + (IF pc = "for" THEN 1 ELSE 0)
    /\ (pc = "for" /\ idx > Len(remaining)) =>
          /\ remaining # <<>>
          /\ placed # <<>>
          /\ StillRemaining(remaining, placed) # remaining
          /\ LET k == FirstNotOversize(remaining, images)
             IN  k # 0 => /\ k \in DOMAIN rects
                          /\ rects[k].x = 0 /\ rects[k].y = 0
          /\ \A k \in OversizeKeys(images) : InSeq(k, remaining) => InSeq(k, placed)
    /\ Returned => remaining = <<>>

\* C10: every pass over a non-empty remaining list removes a sprite from it
\* (the first one that is not oversize is placed at (0,0), the oversize ones
\* are marked placed), the abort is never taken, there are at most as many
\* passes as sprites, and pack_atlas returns with remaining empty.
C10_Terminates ==
    /\ []C10_PassProgress
    /\ <>(pc \in {"packed", "done"})

\* A return after as many passes as there are sprites.
C10_Witness ==
    /\ pc = "packed"
    /\ passes = 3
    /\ Cardinality(DOMAIN images) = 3

(***************************************************************************)
(* Properties of main of pack_atlases.py (MainSpec)                        *)
(***************************************************************************)

\* The categories whose pack_category returns an entry.
ProducesEntry(cat) == dirs[cat].exists /\ dirs[cat].sprites # <<>>

ProducedKeys == {AtlasKey(c) : c \in {d \in CategorySet : ProducesEntry(d)}}

\* C7: the manifest on disk changes only when main ends, and then only at
\* the keys "<category>_atlas" of the categories that produced an entry:
\* every other key of before is there with its value, no other key is new
\* (so a category without directory or sprites writes no key), and such a
\* category does not make the run fail.
C7_ManifestFrame ==
    /\ mpc # "done" => manifest_file = manifest_file0
    /\ mpc = "done" =>
          LET before == manifest_file0[1]
              after == manifest_file[1]
          IN  /\ \A k \in DOMAIN before :
                    /\ k \in DOMAIN after
                    /\ k \notin ProducedKeys => after[k] = before[k]
              /\ \A k \in DOMAIN after : k \in DOMAIN before \/ k \in ProducedKeys
              /\ \A k \in ProducedKeys : k \in DOMAIN after
    /\ (mpc = "loop" /\ cat_i > 1 /\ ~ProducesEntry(categories_to_pack[cat_i - 1])) =>
          /\ AtlasKey(categories_to_pack[cat_i - 1]) \in DOMAIN manifest
                <=> AtlasKey(categories_to_pack[cat_i - 1]) \in DOMAIN manifest_file0[1]
          /\ AtlasKey(categories_to_pack[cat_i - 1]) \in DOMAIN manifest =>
                manifest[AtlasKey(categories_to_pack[cat_i - 1])]
                    = manifest_file0[1][AtlasKey(categories_to_pack[cat_i - 1])]
    /\ mpc = "raised" =>
          \/ manifest_file0 = <<>>
          \/ cat_i >= 1 /\ ProducesEntry(categories_to_pack[cat_i])

\* A finished run with a missing directory whose key was in the manifest, an
\* empty directory whose key was not, a category that produced an entry, and
\* a key of another tool.
C7_Witness ==
    /\ mpc = "done"
    /\ ~dirs["objects"].exists
    /\ "objects_atlas" \in DOMAIN manifest_file0[1]
    /\ dirs["walls"].exists /\ dirs["walls"].sprites = <<>>
    /\ ProducesEntry("inventory")
    /\ "inventory_atlas" \in DOMAIN manifest_file0[1]
    /\ manifest_file[1]["inventory_atlas"] # manifest_file0[1]["inventory_atlas"]
    /\ "sprites" \in DOMAIN manifest_file0[1]

(***************************************************************************)
(* Properties of main of sprite_sheet_batch.py (SheetSpec)                 *)
(***************************************************************************)

\* C5: when the grid is too small for the batch, the run ends in the
\* configuration error with no converted PNG and no sprite sheet written.
C5_NoPartialOutput ==
    spc = "exit_grid_too_small" => converted = <<>> /\ sheets = <<>>

\* C6: in every sheet built, the image at ordinal idx is pasted at
\* ((idx // rows) * tileW, (idx % rows) * tileH), its cell is inside the
\* columns x rows grid, so the tile is inside the canvas of
\* columns*tileW x rows*tileH, and no two ordinals share a cell.
C6_ColumnMajor ==
    \A s \in 1..Len(sheets) :
        LET sh == sheets[s]
        IN  /\ args.rows >= 1 /\ args.batch_size >= 1
            /\ args.columns * args.rows >= args.batch_size
            /\ sh.sheet_w = args.columns * tile.w
            /\ sh.sheet_h = args.rows * tile.h
            /\ Len(sh.pastes) = Len(sh.images)
            /\ Len(sh.images) <= args.batch_size
            /\ \A i \in 1..Len(sh.pastes) :
                  LET ordinal == i - 1
                      col == ordinal \div args.rows
                      row == ordinal % args.rows
                  IN  /\ sh.pastes[i].x = col * tile.w
                      /\ sh.pastes[i].y = row * tile.h
                      /\ row < args.rows
                      /\ col < args.columns
                      /\ sh.pastes[i].x + tile.w <= sh.sheet_w
                      /\ sh.pastes[i].y + tile.h <= sh.sheet_h
            /\ \A i, j \in 1..Len(sh.pastes) :
                  i # j => sh.pastes[i] # sh.pastes[j]

\* A finished run with a full sheet of more than one row and column and a
\* last, partly filled one.
C6_Witness ==
    /\ spc = "done"
    /\ Len(sheets) = 2
    /\ args.rows >= 2 /\ args.columns >= 2
    /\ Len(sheets[1].pastes) = args.columns * args.rows
    /\ Len(sheets[2].pastes) < args.batch_size

====
